---- MODULE Spec2Model ----
(***************************************************************************)
(* A model of the PR analyzer pipeline: main() and PRAnalyzer.analyze_pr   *)
(* (src/pr_analyzer/main.py), DiffExtractor.get_pr_files and               *)
(* _get_file_content (src/pr_analyzer/diff_extractor.py), the two analysis *)
(* entry points of CodeAnalyzer (src/pr_analyzer/code_analyzer.py) and     *)
(* GitHubCommenter (src/pr_analyzer/github_commenter.py).                  *)
(*                                                                         *)
(* One run of the process is modelled: pc is the position of the single    *)
(* thread of control.  Every network call (PR lookup, files listing,       *)
(* content lookup, oracle request, comment creation) is a step whose       *)
(* response is chosen by the environment.                                  *)
(***************************************************************************)
EXTENDS Integers, Sequences, FiniteSets, TLC

\* ------------------------------------------------------------------ bounds

\* The longest upstream files listing explored.
MaxFiles == 2

\* ------------------------------------------------------------- input domains

\* Python's None (an absent content, a missing dict key).
NONE == "<None>"

\* Change statuses the upstream files listing may report.  The code tests the
\* status against "removed" only (line 63): "modified" goes the way of
\* "added", and "copied", "changed" and "unchanged" the way of "renamed".
Statuses == {"added", "removed", "renamed"}

\* PR titles (the title is read by nothing but the formatter, which prints
\* it).
Titles == {"Fix login"}

\* What _get_file_content can meet: the head lookup failing (raise_for_status),
\* a content lookup with a non-200 status, a body that is no UTF-8 text, the
\* empty text of an empty file, or a non-empty text.
ContentOutcomes == {"not200", "text", "empty", "head_raise", "undecodable"}

\* Security texts the oracle may return, as the set of words they contain.
SecurityTexts == { {}, {"high"}, {"CRITICAL"}, {"Critical", "HIGH"} }

\* What datetime.now() may read when the formatter runs.
Times == {"2026-01-01 00:00:00 UTC", "2026-01-01 00:00:01 UTC"}

\* What a comment-creation call can do: 201, another status, or a raised
\* network error.
PostOutcomes == {"created", "error", "raise"}

\* The entries of a files listing: py tells whether the name ends with
\* ".py".  get_pr_files reads the status of a Python file only (lines 59-64),
\* so the other entries are given one status.
ListingEntries ==
    [py : {TRUE}, status : Statuses] \cup [py : {FALSE}, status : {"added"}]

\* The files listings of at most MaxFiles entries; an entry's filename is its
\* position in the listing.
Listings ==
    UNION { [1..n -> ListingEntries] : n \in 0..MaxFiles }

\* Head revisions of the PR: the one it has when the run starts and the one
\* a push during the run moves it to.
Revisions == {"sha_a", "sha_b"}

\* ------------------------------------------------------------------ helpers

\* str.upper() on the words texts are made of.
Upper(w) ==
    CASE w = "critical" -> "CRITICAL"
      [] w = "Critical" -> "CRITICAL"
      [] w = "high"     -> "HIGH"
      [] w = "High"     -> "HIGH"
      [] OTHER          -> w

\* Python truthiness of an Optional[str]: None and "" are both falsy.
Truthy(v) == v # NONE /\ v # ""

\* Truthiness of dict.get(key) for the boolean entries of the result dict.
GetFlag(d, key) == IF key \in DOMAIN d THEN d[key] ELSE FALSE

VARIABLES
    github_token,      \* GITHUB_TOKEN is set
    openai_api_key,    \* OPENAI_API_KEY is set
    fail_on_critical,  \* --fail-on-critical
    security_only,     \* --security-only
    pc,                \* position of the run
    pr_title,          \* analyze_pr's pr_title
    listing,           \* the upstream files listing, as received
    li,                \* get_pr_files: next listing entry to look at
    files,             \* get_pr_files: the list being built
    changed_files,     \* analyze_pr: the list get_pr_files returned
    idx,               \* analyze_pr: next file of the analysis loop
    analyses,          \* analyze_pr: the AnalysisResults so far
    has_critical,      \* analyze_pr: overall flag
    has_high,          \* analyze_pr: overall flag
    comment_body,      \* the document format_analysis_comment returned
    result,            \* what analyze_pr returned
    console,           \* the tier line main printed in the summary
    exitCode,          \* the process exit code, once pc = "exited"
    oracleLog,         \* history: the analyze calls made, <<file index, outcome>>
    postLog,           \* history: the comment-creation calls made
    formatCalls,       \* history: number of format_analysis_comment calls
    fetchLog           \* history: the upstream read calls made

vars == << github_token, openai_api_key, fail_on_critical, security_only, pc,
           pr_title, listing, li, files, changed_files, idx, analyses,
           has_critical, has_high, comment_body, result, console, exitCode,
           oracleLog, postLog, formatCalls, fetchLog >>

\* The variables of the analysis loop and after, untouched while fetching.
loopVars == << idx, analyses, has_critical, has_high, comment_body,
               oracleLog, formatCalls >>

\* The inputs of the process, fixed for the run.
argVars == << github_token, openai_api_key, fail_on_critical, security_only >>

\* The process has been started; nothing has run yet.
Init ==
    /\ github_token \in BOOLEAN
    /\ openai_api_key \in BOOLEAN
    /\ fail_on_critical \in BOOLEAN
    /\ security_only \in BOOLEAN
    /\ pc = "main"
    /\ pr_title = NONE
    /\ listing = << >>
    /\ li = 1
    /\ files = << >>
    /\ changed_files = << >>
    /\ idx = 1
    /\ analyses = << >>
    /\ has_critical = FALSE
    /\ has_high = FALSE
    /\ comment_body = [kind |-> "none"]
    /\ result = [returned |-> FALSE]
    /\ console = NONE
    /\ exitCode = 0
    /\ oracleLog = << >>
    /\ postLog = << >>
    /\ formatCalls = 0
    /\ fetchLog = << >>

\* ------------------------------------------------------------ main: startup

\* main, lines 153-160: a missing token ends the process with exit code 1.
MissingToken ==
    /\ pc = "main"
    /\ ~github_token \/ ~openai_api_key
    /\ pc' = "exited"
    /\ exitCode' = 1
    /\ UNCHANGED << argVars, pr_title, listing, li, files, changed_files,
                    loopVars, result, console, postLog, fetchLog >>

\* StartRun without the validation of the tokens.
StartRunUnchecked ==
    /\ pc = "main"
    /\ pc' = "get_pr_info"
    /\ UNCHANGED << argVars, pr_title, listing, li, files, changed_files,
                    loopVars, result, console, exitCode, postLog, fetchLog >>

\* main, lines 162-164: both tokens present, analyze_pr is entered.
StartRun ==
    /\ pc = "main"
    /\ github_token /\ openai_api_key
    /\ pc' = "get_pr_info"
    /\ UNCHANGED << argVars, pr_title, listing, li, files, changed_files,
                    loopVars, result, console, exitCode, postLog, fetchLog >>

\* A call of the upstream read interface, for the history: which lookup, for
\* which listing entry (0: none), and whether it gave what was asked for.
Call(name, file, ok) ==
    [call |-> name, file |-> file, ok |-> ok, sha |-> NONE]

\* A call that read, or was made at, head revision sha: the PR lookup of
\* get_pr_info (line 128) and of _get_file_content (lines 96-101), and the
\* content lookup at ref=head_sha (lines 104-105).
CallAt(name, file, ok, sha) ==
    [call |-> name, file |-> file, ok |-> ok, sha |-> sha]

\* The head revision the latest PR lookup of the run has read.
LastHead ==
    LET ks == {k \in 1..Len(fetchLog) :
                 fetchLog[k].call \in {"pr_info", "head"} /\ fetchLog[k].ok}
    IN  IF ks = {} THEN "sha_a"
        ELSE fetchLog[CHOOSE k \in ks : \A j \in ks : j <= k].sha

\* The head revisions a PR lookup may read after one that read h: the same,
\* or the one a push has made since.
HeadsFrom(h) == IF h = "sha_a" THEN Revisions ELSE {h}

\* ----------------------------------------------------- analyze_pr: fetching

\* analyze_pr, lines 56-60: the PR metadata lookup succeeds.
GetPrInfoOk ==
    /\ pc = "get_pr_info"
    /\ \E t \in Titles : pr_title' = t
    /\ fetchLog' = Append(fetchLog, CallAt("pr_info", 0, TRUE, "sha_a"))
    /\ pc' = "get_pr_files"
    /\ UNCHANGED << argVars, listing, li, files, changed_files, loopVars,
                    result, console, exitCode, postLog >>

\* GetPrInfoFails with the exception swallowed: the run goes on untitled.
GetPrInfoFailsIgnored ==
    /\ pc = "get_pr_info"
    /\ fetchLog' = Append(fetchLog, Call("pr_info", 0, FALSE))
    /\ pc' = "get_pr_files"
    /\ UNCHANGED << argVars, pr_title, listing, li, files, changed_files,
                    loopVars, result, console, exitCode, postLog >>

\* analyze_pr, lines 61-62: the lookup raised (PR not found, network error,
\* no title in the answer).
GetPrInfoFails ==
    /\ pc = "get_pr_info"
    /\ fetchLog' = Append(fetchLog, Call("pr_info", 0, FALSE))
    /\ result' = [success |-> FALSE, error |-> "Failed to get PR info"]
    /\ pc' = "summary"
    /\ UNCHANGED << argVars, pr_title, listing, li, files, changed_files,
                    loopVars, console, exitCode, postLog >>

\* get_pr_files, lines 52-56: the files listing is received.
ListFilesOk ==
    /\ pc = "get_pr_files"
    /\ \E l \in Listings : listing' = l
    /\ fetchLog' = Append(fetchLog, Call("files", 0, TRUE))
    /\ li' = 1
    /\ files' = << >>
    /\ pc' = "filter"
    /\ UNCHANGED << argVars, pr_title, changed_files, loopVars, result,
                    console, exitCode, postLog >>

\* get_pr_files, line 54, and analyze_pr, lines 76-77: the listing raised.
ListFilesFails ==
    /\ pc = "get_pr_files"
    /\ fetchLog' = Append(fetchLog, Call("files", 0, FALSE))
    /\ result' = [success |-> FALSE, error |-> "Failed to get changed files"]
    /\ pc' = "summary"
    /\ UNCHANGED << argVars, pr_title, listing, li, files, changed_files,
                    loopVars, console, exitCode, postLog >>

\* get_pr_files, lines 58-64: whether a listing entry is kept.
Retained(e) == e.py /\ e.status # "removed"

\* _get_file_content, lines 107-115: the content a lookup outcome gives.
ContentOf(outcome) ==
    CASE outcome = "not200" -> NONE
      [] outcome = "empty"  -> ""
      [] OTHER              -> "code"

\* ChangedFile, lines 66-72 (the line counts and the patch are read by
\* nothing downstream and are left out).
ChangedFile(name, status, content) ==
    [filename |-> name, status |-> status, content |-> content]

\* get_pr_files, lines 57-64: an entry that is no Python file, or a removed
\* one, is passed over.
FilterDrop ==
    /\ pc = "filter"
    /\ li <= Len(listing)
    /\ ~Retained(listing[li])
    /\ li' = li + 1
    /\ UNCHANGED << argVars, pc, pr_title, listing, files, changed_files,
                    loopVars, result, console, exitCode, postLog, fetchLog >>

\* get_pr_files, lines 66-80, with _get_file_content, lines 95-115: a kept
\* entry gets its content resolved and is appended.
FilterKeep ==
    /\ pc = "filter"
    /\ li <= Len(listing)
    /\ Retained(listing[li])
    /\ \E o \in ContentOutcomes \ {"head_raise", "undecodable"},
          head_sha \in HeadsFrom(LastHead) :
         /\ files' = Append(files,
                            ChangedFile(li, listing[li].status, ContentOf(o)))
         /\ fetchLog' =
              fetchLog \o << CallAt("head", li, TRUE, head_sha),
                             CallAt("content", li, o # "not200", head_sha) >>
    /\ li' = li + 1
    /\ UNCHANGED << argVars, pc, pr_title, listing, changed_files, loopVars,
                    result, console, exitCode, postLog >>

\* _get_file_content, line 98 or line 114, and analyze_pr, lines 76-77: the
\* head lookup or the decoding raised, which ends get_pr_files.
FilterRaises ==
    /\ pc = "filter"
    /\ li <= Len(listing)
    /\ Retained(listing[li])
    /\ \E o \in {"head_raise", "undecodable"},
          head_sha \in HeadsFrom(LastHead) :
         fetchLog' =
           IF o = "head_raise"
           THEN Append(fetchLog, Call("head", li, FALSE))
           ELSE fetchLog \o << CallAt("head", li, TRUE, head_sha),
                               CallAt("content", li, FALSE, head_sha) >>
    /\ result' = [success |-> FALSE, error |-> "Failed to get changed files"]
    /\ pc' = "summary"
    /\ UNCHANGED << argVars, pr_title, listing, li, files, changed_files,
                    loopVars, console, exitCode, postLog >>

\* ReturnFiles without the short-circuit of an empty list.
ReturnFilesNoShortCircuit ==
    /\ pc = "filter"
    /\ li > Len(listing)
    /\ changed_files' = files
    /\ pc' = "loop"
    /\ UNCHANGED << argVars, pr_title, listing, li, files, loopVars, result,
                    console, exitCode, postLog, fetchLog >>

\* get_pr_files, line 82, and analyze_pr, lines 66-69: the list is returned.
ReturnFiles ==
    /\ pc = "filter"
    /\ li > Len(listing)
    /\ changed_files' = files
    /\ pc' = IF files = << >> THEN "post_nothing" ELSE "loop"
    /\ UNCHANGED << argVars, pr_title, listing, li, files, loopVars, result,
                    console, exitCode, postLog, fetchLog >>

\* ---------------------------------------------------- CodeAnalyzer: one file

\* HasMarker without the upper(): the marker as written only.
HasMarkerExact(security, marker) == marker \in security

\* analyze_file, lines 185-186: `MARKER in security.upper()` (the first
\* disjunct, the marker behind its emoji, implies the second).
HasMarker(security, marker) == \E w \in security : Upper(w) = marker

\* RequestsPerFile with the four requests made in either mode.
RequestsPerFileAllFour(full_analysis) == 4

\* Number of oracle requests analyze_file (lines 179-182) and
\* analyze_security_only (line 200) make for one file.
RequestsPerFile(full_analysis) == IF full_analysis THEN 4 ELSE 1

\* analyze_file, lines 179-196: the AnalysisResult of a file whose four
\* requests succeeded with the four texts given.  Only the Security text is
\* ever scanned, so only it is modelled by the words it contains.
AnalyzeFile(filename, security, quality, migration, refactoring) ==
    [filename |-> filename,
     security |-> security,
     quality |-> quality,
     migration |-> migration,
     refactoring |-> refactoring,
     has_critical_issues |-> HasMarker(security, "CRITICAL"),
     has_high_issues |-> HasMarker(security, "HIGH")]

\* analyze_security_only, lines 200-213.
AnalyzeSecurityOnly(filename, security) ==
    [filename |-> filename,
     security |-> security,
     quality |-> "",
     migration |-> "",
     refactoring |-> "",
     has_critical_issues |-> HasMarker(security, "CRITICAL"),
     has_high_issues |-> HasMarker(security, "HIGH")]

\* --------------------------------------------- analyze_pr: the analysis loop

\* Security texts received before a later request of the same file failed.
FailedSecurityTexts == { {"Critical", "HIGH"} }

\* Texts the oracle returns for Quality, Migration and Refactoring in the
\* runs of the pipeline.
OtherTexts == {"findings"}

\* What the oracle did for one file: o.ok tells whether every request
\* succeeded, o.security is the Security text received ({} when the Security
\* request itself failed), o.other the text of each further request that
\* was answered, o.requests the number of requests made (the failing one
\* included; the Security request is the first).  A failure is met at the
\* first request or, the others answered, at the last.
OracleOutcomes(full_analysis) ==
    [ok : {TRUE}, security : SecurityTexts, other : OtherTexts,
     requests : {RequestsPerFile(full_analysis)}]
    \cup [ok : {FALSE}, security : {{}}, other : OtherTexts, requests : {1}]
    \cup [ok : {FALSE}, security : FailedSecurityTexts, other : OtherTexts,
          requests : {RequestsPerFile(full_analysis)} \ {1}]

\* FoldFlag taking the flag of the file analyzed last.
FoldFlagLast(overall, flag) == flag

\* FoldFlag with `and` for `or`.
FoldFlagAnd(overall, flag) == overall /\ flag

\* analyze_pr, lines 99-104: how a file's flag enters the overall flag.
FoldFlag(overall, flag) == overall \/ flag

\* Submitted without the test of the content.
SubmittedAlways(file) == TRUE

\* analyze_pr, line 85: the file is passed to the analyzer.
Submitted(file) == Truthy(file.content)

\* LoopStep putting a new result in front of the earlier ones.
LoopStepPrepend(st, file, o, full_analysis) ==
    IF ~Submitted(file) THEN st
    ELSE IF ~o.ok THEN st
    ELSE LET r == IF full_analysis
                  THEN AnalyzeFile(file.filename, o.security,
                                   o.other, o.other, o.other)
                  ELSE AnalyzeSecurityOnly(file.filename, o.security)
         IN  [analyses |-> << r >> \o st.analyses,
              has_critical |-> FoldFlag(st.has_critical, r.has_critical_issues),
              has_high |-> FoldFlag(st.has_high, r.has_high_issues)]

\* LoopStep keeping the flags of a Security text received before a later
\* request of the file failed.
LoopStepPartial(st, file, o, full_analysis) ==
    IF ~Submitted(file) THEN st
    ELSE IF ~o.ok
    THEN [st EXCEPT
            !.has_critical = FoldFlag(@, HasMarker(o.security, "CRITICAL")),
            !.has_high = FoldFlag(@, HasMarker(o.security, "HIGH"))]
    ELSE LET r == IF full_analysis
                  THEN AnalyzeFile(file.filename, o.security,
                                   o.other, o.other, o.other)
                  ELSE AnalyzeSecurityOnly(file.filename, o.security)
         IN  [analyses |-> Append(st.analyses, r),
              has_critical |-> FoldFlag(st.has_critical, r.has_critical_issues),
              has_high |-> FoldFlag(st.has_high, r.has_high_issues)]

\* analyze_pr, lines 85-107: one round of the loop on the loop's state
\* st = [analyses, has_critical, has_high], for file `file` and the oracle
\* outcome o it meets.
LoopStep(st, file, o, full_analysis) ==
    IF ~Submitted(file) THEN st
    ELSE IF ~o.ok THEN st
    ELSE LET r == IF full_analysis
                  THEN AnalyzeFile(file.filename, o.security,
                                   o.other, o.other, o.other)
                  ELSE AnalyzeSecurityOnly(file.filename, o.security)
         IN  [analyses |-> Append(st.analyses, r),
              has_critical |-> FoldFlag(st.has_critical, r.has_critical_issues),
              has_high |-> FoldFlag(st.has_high, r.has_high_issues)]

\* The loop's state, as one value.
LoopState ==
    [analyses |-> analyses, has_critical |-> has_critical, has_high |-> has_high]

\* analyze_pr, lines 85-87: a file without content is passed over.
LoopSkip ==
    /\ pc = "loop"
    /\ idx <= Len(changed_files)
    /\ ~Submitted(changed_files[idx])
    /\ idx' = idx + 1
    /\ UNCHANGED << argVars, pc, pr_title, listing, li, files, changed_files,
                    analyses, has_critical, has_high, comment_body, result,
                    console, exitCode, oracleLog, postLog, formatCalls,
                    fetchLog >>

\* analyze_pr, lines 89-107: a file with content is analyzed; the analyzer
\* returns a result or raises.
LoopAnalyze ==
    /\ pc = "loop"
    /\ idx <= Len(changed_files)
    /\ Submitted(changed_files[idx])
    /\ \E o \in OracleOutcomes(~security_only) :
         LET st == LoopStep(LoopState, changed_files[idx], o, ~security_only)
         IN  /\ analyses' = st.analyses
             /\ has_critical' = st.has_critical
             /\ has_high' = st.has_high
             /\ oracleLog' = Append(oracleLog,
                                    [file |-> idx, ok |-> o.ok,
                                     security |-> o.security,
                                     other |-> o.other,
                                     requests |-> o.requests])
    /\ idx' = idx + 1
    /\ UNCHANGED << argVars, pc, pr_title, listing, li, files, changed_files,
                    comment_body, result, console, exitCode, postLog,
                    formatCalls, fetchLog >>

\* analyze_pr, lines 128-135: the dict of a run that got through.
SuccessResult ==
    [success |-> TRUE, files_analyzed |-> Len(analyses),
     has_critical |-> has_critical, has_high |-> has_high,
     pr_title |-> pr_title]

\* analyze_pr, line 110: after the last file, with results to post.
LoopEndSome ==
    /\ pc = "loop"
    /\ idx > Len(changed_files)
    /\ analyses # << >>
    /\ pc' = "format"
    /\ UNCHANGED << argVars, pr_title, listing, li, files, changed_files,
                    loopVars, result, console, exitCode, postLog, fetchLog >>

\* analyze_pr, lines 110 and 128-135: after the last file, with no result:
\* nothing is posted and the run returns success.
LoopEndNone ==
    /\ pc = "loop"
    /\ idx > Len(changed_files)
    /\ analyses = << >>
    /\ result' = SuccessResult
    /\ pc' = "summary"
    /\ UNCHANGED << argVars, pr_title, listing, li, files, changed_files,
                    loopVars, console, exitCode, postLog, fetchLog >>

\* -------------------------------------------------------- GitHubCommenter

\* StatusText with the two tests in the other order.
StatusTextHighFirst(critical, high) ==
    IF high THEN "HIGH SEVERITY ISSUES FOUND"
    ELSE IF critical THEN "CRITICAL ISSUES FOUND"
    ELSE "No Critical Issues"

\* format_analysis_comment, lines 91-102: the status text of the header.
StatusText(critical, high) ==
    IF critical THEN "CRITICAL ISSUES FOUND"
    ELSE IF high THEN "HIGH SEVERITY ISSUES FOUND"
    ELSE "No Critical Issues"

\* MergeRecommendation with the two tests in the other order.
MergeRecommendationHighFirst(critical, high) ==
    IF high THEN "High severity issues were found."
    ELSE IF critical THEN "Critical security issues were found."
    ELSE "No critical or high severity issues found."

\* format_analysis_comment, lines 151-194: the merge recommendation.
MergeRecommendation(critical, high) ==
    IF critical THEN "Critical security issues were found."
    ELSE IF high THEN "High severity issues were found."
    ELSE "No critical or high severity issues found."

\* format_analysis_comment, lines 116-148: the section of one analysis.
FileSection(analysis) ==
    [filename |-> analysis.filename,
     security |-> analysis.security,
     quality |-> analysis.quality,
     migration |-> analysis.migration,
     refactoring |-> analysis.refactoring]

\* format_analysis_comment, lines 88-202: the document, as its parts in the
\* order they are written (the fixed footer, lines 196-200, is left out).
\* The function takes the first four parameters; `now` is what its own
\* datetime.now() of line 88 reads.
FormatAnalysisComment(results, title, critical, high, now) ==
    [kind |-> "report",
     status_text |-> StatusText(critical, high),
     pr_title |-> title,
     scanned |-> Len(results),
     time |-> now,
     sections |-> [i \in 1..Len(results) |-> FileSection(results[i])],
     recommendation |-> MergeRecommendation(critical, high)]

\* analyze_pr, lines 71-74: the comment of a PR without Python files.
NothingToReview == [kind |-> "nothing"]

\* post_comment, lines 57-67: the CommentResult of a response.
CommentResult(outcome) ==
    IF outcome = "created"
    THEN [success |-> TRUE, error |-> NONE]
    ELSE [success |-> FALSE, error |-> "Failed to post comment"]

\* Format going back to the first file of the loop once.
FormatAndRestart ==
    /\ pc = "format"
    /\ \E now \in Times :
         comment_body' = FormatAnalysisComment(analyses, pr_title,
                                               has_critical, has_high, now)
    /\ formatCalls' = formatCalls + 1
    /\ pc' = IF formatCalls = 0 THEN "loop" ELSE "post"
    /\ idx' = IF formatCalls = 0 THEN 1 ELSE idx
    /\ UNCHANGED << argVars, pr_title, listing, li, files, changed_files,
                    analyses, has_critical, has_high, result, console,
                    exitCode, oracleLog, postLog, fetchLog >>

\* analyze_pr, lines 113-118: the report is formatted.
Format ==
    /\ pc = "format"
    /\ \E now \in Times :
         comment_body' = FormatAnalysisComment(analyses, pr_title,
                                               has_critical, has_high, now)
    /\ formatCalls' = formatCalls + 1
    /\ pc' = "post"
    /\ UNCHANGED << argVars, pr_title, listing, li, files, changed_files, idx,
                    analyses, has_critical, has_high, result, console,
                    exitCode, oracleLog, postLog, fetchLog >>

\* analyze_pr, lines 120-135: the report is posted and the call returns; the
\* run returns success or the error of the CommentResult.
PostReport ==
    /\ pc = "post"
    /\ \E o \in PostOutcomes \ {"raise"} :
         /\ postLog' = Append(postLog, [body |-> comment_body, outcome |-> o])
         /\ result' = IF CommentResult(o).success
                      THEN SuccessResult
                      ELSE [success |-> FALSE, error |-> CommentResult(o).error]
    /\ pc' = "summary"
    /\ UNCHANGED << argVars, pr_title, listing, li, files, changed_files,
                    loopVars, console, exitCode, fetchLog >>

\* analyze_pr, line 120, and post_comment, line 55: the request raised; no
\* handler is around the call, so the exception leaves analyze_pr and main
\* and the interpreter ends with exit code 1.
PostReportRaises ==
    /\ pc = "post"
    /\ postLog' = Append(postLog, [body |-> comment_body, outcome |-> "raise"])
    /\ pc' = "exited"
    /\ exitCode' = 1
    /\ UNCHANGED << argVars, pr_title, listing, li, files, changed_files,
                    loopVars, result, console, fetchLog >>

\* analyze_pr, lines 69-75: no file to analyze; the comment is posted, its
\* CommentResult is dropped and the run returns success.
PostNothing ==
    /\ pc = "post_nothing"
    /\ \E o \in PostOutcomes \ {"raise"} :
         postLog' = Append(postLog, [body |-> NothingToReview, outcome |-> o])
    /\ result' = [success |-> TRUE, files_analyzed |-> 0,
                  message |-> "No Python files to analyze"]
    /\ pc' = "summary"
    /\ UNCHANGED << argVars, pr_title, listing, li, files, changed_files,
                    loopVars, console, exitCode, fetchLog >>

\* analyze_pr, lines 71 and 76-77: the request raised inside the try block
\* of step 2.
PostNothingRaises ==
    /\ pc = "post_nothing"
    /\ postLog' = Append(postLog,
                         [body |-> NothingToReview, outcome |-> "raise"])
    /\ result' = [success |-> FALSE, error |-> "Failed to get changed files"]
    /\ pc' = "summary"
    /\ UNCHANGED << argVars, pr_title, listing, li, files, changed_files,
                    loopVars, console, exitCode, fetchLog >>

\* ------------------------------------------------------------ main: summary

\* main, lines 174-182: the line of the summary that tells the tier.
ConsoleLine(res) ==
    IF GetFlag(res, "has_critical") THEN "CRITICAL security issues found!"
    ELSE IF GetFlag(res, "has_high") THEN "HIGH severity issues found"
    ELSE "No critical or high severity issues"

\* ExitCodeFor with the strict flag also failing the build on a high finding.
ExitCodeForHighToo(res, strict) ==
    IF res.success
    THEN IF (GetFlag(res, "has_critical") \/ GetFlag(res, "has_high")) /\ strict
         THEN 1 ELSE 0
    ELSE 1

\* main, lines 171-185: the exit code for what analyze_pr returned.
ExitCodeFor(res, strict) ==
    IF res.success
    THEN IF GetFlag(res, "has_critical") /\ strict THEN 1 ELSE 0
    ELSE 1

\* main, lines 166-185: the summary is printed and the process ends.
Summary ==
    /\ pc = "summary"
    /\ console' = IF result.success THEN ConsoleLine(result) ELSE NONE
    /\ exitCode' = ExitCodeFor(result, fail_on_critical)
    /\ pc' = "exited"
    /\ UNCHANGED << argVars, pr_title, listing, li, files, changed_files,
                    loopVars, result, postLog, fetchLog >>

\* ------------------------------------------------------------ specification

Next ==
    \/ MissingToken
    \/ StartRun
    \/ GetPrInfoOk
    \/ GetPrInfoFails
    \/ ListFilesOk
    \/ ListFilesFails
    \/ FilterDrop
    \/ FilterKeep
    \/ FilterRaises
    \/ ReturnFiles
    \/ LoopSkip
    \/ LoopAnalyze
    \/ LoopEndSome
    \/ LoopEndNone
    \/ Format
    \/ PostReport
    \/ PostReportRaises
    \/ PostNothing
    \/ PostNothingRaises
    \/ Summary

Spec == Init /\ [][Next]_vars

\* The steps that need no answer of the analysis oracle: every disjunct of
\* Next but LoopAnalyze, whose create() call (_call_openai, lines 157-161)
\* returns only when the oracle answers or the client gives up.
NextButOracle ==
    \/ MissingToken
    \/ StartRun
    \/ GetPrInfoOk
    \/ GetPrInfoFails
    \/ ListFilesOk
    \/ ListFilesFails
    \/ FilterDrop
    \/ FilterKeep
    \/ FilterRaises
    \/ ReturnFiles
    \/ LoopSkip
    \/ LoopEndSome
    \/ LoopEndNone
    \/ Format
    \/ PostReport
    \/ PostReportRaises
    \/ PostNothing
    \/ PostNothingRaises
    \/ Summary

\* The run with an oracle that may never answer: the interpreter takes every
\* step of its own and every upstream request is answered, but nothing makes
\* an oracle call return.
FairSpec == Spec /\ WF_vars(NextButOracle)

\* The run with an oracle that always answers.
FairOracleSpec == FairSpec /\ WF_vars(LoopAnalyze)

\* ------------------------------------- the analyzer alone, on any four texts

\* Security texts over the spellings of the two markers.
UnitSecurityTexts ==
    SUBSET {"critical", "Critical", "CRITICAL", "high", "HIGH"}

\* Quality, Migration and Refactoring texts: plain, naming both markers, or
\* empty.
UnitOtherTexts == {"findings", "CRITICAL and HIGH findings", ""}

\* A CodeAnalyzer has been constructed; the mode is either one.
InitUnit ==
    /\ github_token = TRUE
    /\ openai_api_key = TRUE
    /\ fail_on_critical = FALSE
    /\ security_only \in BOOLEAN
    /\ pc = "unit"
    /\ pr_title = NONE
    /\ listing = << >>
    /\ li = 1
    /\ files = << >>
    /\ changed_files = << >>
    /\ idx = 1
    /\ analyses = << >>
    /\ has_critical = FALSE
    /\ has_high = FALSE
    /\ comment_body = [kind |-> "none"]
    /\ result = [returned |-> FALSE]
    /\ console = NONE
    /\ exitCode = 0
    /\ oracleLog = << >>
    /\ postLog = << >>
    /\ formatCalls = 0
    /\ fetchLog = << >>

\* analyze_file, lines 179-196, or analyze_security_only, lines 200-213, by
\* the mode as in analyze_pr, lines 92-95: one file is analyzed and every
\* request is answered; the texts received are kept in oracleLog.
AnalyzeOne ==
    /\ pc = "unit"
    /\ \E sec \in UnitSecurityTexts, q, m, r \in UnitOtherTexts :
         /\ analyses' =
              << IF security_only
                 THEN AnalyzeSecurityOnly(1, sec)
                 ELSE AnalyzeFile(1, sec, q, m, r) >>
         /\ oracleLog' =
              << IF security_only
                 THEN [security |-> sec]
                 ELSE [security |-> sec, quality |-> q, migration |-> m,
                       refactoring |-> r] >>
    /\ pc' = "unit_done"
    /\ UNCHANGED << argVars, pr_title, listing, li, files, changed_files, idx,
                    has_critical, has_high, comment_body, result, console,
                    exitCode, postLog, formatCalls, fetchLog >>

NextUnit == AnalyzeOne

SpecUnit == InitUnit /\ [][NextUnit]_vars

\* ------------------------------------------------- reading the run's outcome

\* analyze_pr has returned.
Returned == "success" \in DOMAIN result

\* The pipeline is Done: analyze_pr returned success (lines 75, 129-135).
PipelineDone == Returned /\ result.success

\* analyze_pr ended with an exception no handler caught (line 120).
Crashed ==
    pc = "exited" /\ ~Returned /\ github_token /\ openai_api_key

\* The pipeline is Failed: analyze_pr returned an error (lines 62, 77, 126)
\* or did not return.
PipelineFailed == (Returned /\ ~result.success) \/ Crashed

\* The tier a status text, a merge recommendation or a console line stands for.
TierOf(text) ==
    CASE text \in {"CRITICAL ISSUES FOUND",
                   "Critical security issues were found.",
                   "CRITICAL security issues found!"} -> "Blocked"
      [] text \in {"HIGH SEVERITY ISSUES FOUND",
                   "High severity issues were found.",
                   "HIGH severity issues found"} -> "CautionAdvised"
      [] text \in {"No Critical Issues",
                   "No critical or high severity issues found.",
                   "No critical or high severity issues"} -> "Clear"
      [] OTHER -> "?"

\* The analysis loop of analyze_pr is over.
LoopOver ==
    /\ pc \in {"format", "post", "summary", "exited"}
    /\ changed_files # << >>
    /\ idx > Len(changed_files)

\* Number of files for which every oracle request succeeded.
Succeeded == Cardinality({k \in 1..Len(oracleLog) : oracleLog[k].ok})

\* --------------------------------------------------------------------- C1

\* C1: the tier reported by a posted report (header and merge
\* recommendation) and by the console summary is decided by the run's two
\* flags alone: has_critical gives Blocked; has_high without has_critical
\* gives CautionAdvised; neither gives Clear.
C1_VerdictByFlags ==
    LET tier == IF has_critical THEN "Blocked"
                ELSE IF has_high THEN "CautionAdvised"
                ELSE "Clear"
    IN  /\ \A k \in 1..Len(postLog) :
             postLog[k].body.kind = "report" =>
               /\ TierOf(postLog[k].body.status_text) = tier
               /\ TierOf(postLog[k].body.recommendation) = tier
        /\ console # NONE => TierOf(console) = tier

\* C1 witness: a report was created and the summary printed in a run whose
\* two flags are both set, so that the order of the tests matters.
C1_Witness ==
    /\ pc = "exited"
    /\ has_critical /\ has_high
    /\ console # NONE
    /\ Len(postLog) = 1
    /\ postLog[1].body.kind = "report"
    /\ postLog[1].outcome = "created"

\* --------------------------------------------------------------------- C2

\* C2: once the pipeline has run and the process has ended, the exit code
\* is 0 if the pipeline is Done and the strict flag is off; it is non-zero
\* exactly if the pipeline Failed or it is Done with has_critical (verdict
\* Blocked) under the strict flag; Done with has_high only exits 0 even
\* under the strict flag.
C2_ExitCode ==
    (pc = "exited" /\ (PipelineDone \/ PipelineFailed)) =>
        /\ (PipelineDone /\ ~fail_on_critical) => exitCode = 0
        /\ exitCode # 0 <=>
             (PipelineFailed \/ (PipelineDone /\ has_critical /\ fail_on_critical))
        /\ (PipelineDone /\ ~has_critical /\ has_high /\ fail_on_critical)
             => exitCode = 0

\* C2 witness: a Done run under the strict flag with a high finding and no
\* critical one has ended with exit code 0.
C2_Witness ==
    /\ pc = "exited"
    /\ PipelineDone
    /\ fail_on_critical
    /\ has_high /\ ~has_critical
    /\ exitCode = 0

\* --------------------------------------------------------------------- C3

\* C3: a run that submitted at least one file to the oracle and saw every
\* submission fail ends Failed and exits non-zero; a run with at least one
\* successful submission goes on to format its report.
C3_OutageFails ==
    LoopOver =>
        /\ (oracleLog # << >> /\ Succeeded = 0) =>
              /\ pc # "format"
              /\ pc \in {"summary", "exited"} => PipelineFailed
              /\ pc = "exited" => exitCode # 0
        /\ Succeeded >= 1 => (pc = "format" \/ formatCalls = 1)

\* --------------------------------------------------------------------- C4

\* Number of times file i of changed_files was passed to the analyzer.
Submissions(i) == Cardinality({k \in 1..Len(oracleLog) : oracleLog[k].file = i})

\* C4: when the analysis loop is over, every retained file whose content is
\* present (not None) has been submitted to the oracle exactly once, and no
\* file more than once, whatever the other files' oracle calls did.
C4_SubmittedOnce ==
    /\ \A i \in 1..Len(changed_files) : Submissions(i) <= 1
    /\ LoopOver =>
         \A i \in 1..Len(changed_files) :
           changed_files[i].content # NONE => Submissions(i) = 1

\* C4, the part the code keeps: no file is submitted twice, and when the
\* loop is over every file with a non-empty content has been submitted once,
\* whatever the oracle did for the files before it.
C4_NonEmptySubmittedOnce ==
    /\ \A i \in 1..Len(changed_files) : Submissions(i) <= 1
    /\ LoopOver =>
         \A i \in 1..Len(changed_files) :
           Truthy(changed_files[i].content) <=> Submissions(i) = 1

\* --------------------------------------------------------------------- C5

\* C5: every file submitted to the oracle, and every file with an
\* AnalysisResult, is a retained entry of the listing (supported extension,
\* not removed) whose content is present.
C5_OnlyPresentContent ==
    /\ \A k \in 1..Len(oracleLog) :
         LET i == oracleLog[k].file
         IN  /\ i \in 1..Len(changed_files)
             /\ changed_files[i].content # NONE
             /\ listing[changed_files[i].filename].py
             /\ listing[changed_files[i].filename].status # "removed"
    /\ \A j \in 1..Len(analyses) :
         \E i \in 1..Len(changed_files) :
           /\ changed_files[i].filename = analyses[j].filename
           /\ changed_files[i].content # NONE

\* C5 witness: the loop has passed over a file whose content is absent and
\* has submitted another file.
C5_Witness ==
    /\ pc = "loop"
    /\ \E i \in 1..Len(changed_files) :
         i < idx /\ changed_files[i].content = NONE
    /\ oracleLog # << >>

\* --------------------------------------------------------------------- C6

\* The filenames a posted document mentions.
NamesIn(body) ==
    IF body.kind = "report"
    THEN {body.sections[j].filename : j \in 1..Len(body.sections)}
    ELSE {}

\* The files of changed_files that gave no AnalysisResult.
SkippedFiles ==
    {i \in 1..Len(changed_files) :
       \A j \in 1..Len(analyses) :
         analyses[j].filename # changed_files[i].filename}

\* C6: a Done run reports a skipped count with analyzed + skipped = number
\* of retained files, and every report it posted names each skipped file.
C6_SkippedRecorded ==
    (PipelineDone /\ changed_files # << >>) =>
        /\ "skipped" \in DOMAIN result
        /\ result.files_analyzed + result.skipped = Len(changed_files)
        /\ \A k \in 1..Len(postLog) :
             \A i \in SkippedFiles :
               changed_files[i].filename \in NamesIn(postLog[k].body)

\* --------------------------------------------------------------------- C7

\* get_pr_files has returned its list.
FetchSucceeded ==
    /\ pc \notin {"main", "get_pr_info", "get_pr_files", "filter"}
    /\ li > Len(listing)
    /\ \E k \in 1..Len(fetchLog) : fetchLog[k] = Call("files", 0, TRUE)

\* C7: in a run whose fetch succeeded with no retained file, no oracle call
\* and no formatting call is made, the one comment-creation call carries the
\* "nothing to review" text, and once that comment is created the run is
\* Done with files_analyzed = 0 and exits 0.
C7_ShortCircuit ==
    (FetchSucceeded /\ files = << >>) =>
        /\ oracleLog = << >>
        /\ formatCalls = 0
        /\ Len(postLog) <= 1
        /\ \A k \in 1..Len(postLog) : postLog[k].body = NothingToReview
        /\ pc \in {"summary", "exited"} =>
             /\ Len(postLog) = 1
             /\ postLog[1].outcome = "created" =>
                  /\ PipelineDone
                  /\ result.files_analyzed = 0
                  /\ pc = "exited" => exitCode = 0

\* C7 witness: a listing with entries, none retained, under the strict flag;
\* the comment was created and the process has ended.
C7_Witness ==
    /\ pc = "exited"
    /\ FetchSucceeded
    /\ listing # << >>
    /\ files = << >>
    /\ fail_on_critical
    /\ Len(postLog) = 1
    /\ postLog[1].outcome = "created"

\* --------------------------------------------------------------------- C8

\* C8: no run makes more than three comment-creation attempts; a failed
\* attempt of a report that is not the third is followed by another attempt;
\* three failed attempts end the run Failed with the publishing error.
C8_PublishRetried ==
    /\ Len(postLog) <= 3
    /\ pc \in {"summary", "exited"} =>
         /\ \A k \in 1..Len(postLog) :
              (postLog[k].body.kind = "report"
                 /\ postLog[k].outcome # "created" /\ k < 3)
              => Len(postLog) > k
         /\ (Len(postLog) = 3
               /\ \A k \in 1..3 : postLog[k].outcome # "created")
              => (Returned /\ ~result.success
                    /\ result.error = "Failed to post comment")

\* --------------------------------------------------------------------- C9

\* The PR metadata lookup or the files listing failed.
FetchFailed ==
    \E k \in 1..Len(fetchLog) :
      fetchLog[k].call \in {"pr_info", "files"} /\ ~fetchLog[k].ok

\* C9: once the PR metadata lookup or the files listing has failed, the run
\* is Failed, the process exit code is non-zero, and no oracle call and no
\* comment-creation call has been made.
C9_FetchFailureIsFatal ==
    FetchFailed =>
        /\ pc \in {"summary", "exited"}
        /\ Returned /\ ~result.success
        /\ pc = "exited" => exitCode # 0
        /\ oracleLog = << >>
        /\ postLog = << >>

\* C9 witness: the files listing failed after a successful PR lookup and the
\* process has ended.
C9_Witness ==
    /\ pc = "exited"
    /\ Len(fetchLog) = 2
    /\ fetchLog[1] = CallAt("pr_info", 0, TRUE, "sha_a")
    /\ fetchLog[2] = Call("files", 0, FALSE)

\* -------------------------------------------------------------------- C10

\* The permutations of 1..n.
Perms(n) ==
    {p \in [1..n -> 1..n] : \A a, b \in 1..n : p[a] = p[b] => a = b}

\* What the oracle did for file i of changed_files in this run (a file that
\* was not submitted met no outcome; LoopStep does not read it).
OutcomeFor(i) ==
    IF \E k \in 1..Len(oracleLog) : oracleLog[k].file = i
    THEN LET k == CHOOSE k \in 1..Len(oracleLog) : oracleLog[k].file = i
         IN  [ok |-> oracleLog[k].ok, security |-> oracleLog[k].security,
              other |-> oracleLog[k].other,
              requests |-> oracleLog[k].requests]
    ELSE [ok |-> FALSE, security |-> {}, other |-> "", requests |-> 0]

\* analyze_pr, lines 80-107: the loop's state after the first k files of
\* `order`, a processing order of changed_files, each file meeting the
\* outcome it met in this run.
RECURSIVE RunLoop(_, _)
RunLoop(order, k) ==
    IF k = 0
    THEN [analyses |-> << >>, has_critical |-> FALSE, has_high |-> FALSE]
    ELSE LoopStep(RunLoop(order, k - 1), changed_files[order[k]],
                  OutcomeFor(order[k]), ~security_only)

\* C10: when the analysis loop is over, processing the same files with the
\* same per-file oracle outcomes in any other order gives the same
\* has_critical, the same has_high, the same number of analyzed files and
\* the same number of skipped files as the run got.
C10_OrderIndependent ==
    LoopOver =>
        LET n == Len(changed_files)
        IN  \A p \in Perms(n) :
              LET st == RunLoop(p, n)
              IN  /\ st.has_critical = has_critical
                  /\ st.has_high = has_high
                  /\ Len(st.analyses) = Len(analyses)
                  /\ n - Len(st.analyses) = Cardinality(SkippedFiles)

\* C10 witness: the loop is over for at least two files, of which the first
\* was analyzed with a critical and a high finding and a later one without.
C10_Witness ==
    /\ LoopOver
    /\ Len(oracleLog) >= 2
    /\ oracleLog[1].ok /\ HasMarker(oracleLog[1].security, "CRITICAL")
    /\ HasMarker(oracleLog[1].security, "HIGH")
    /\ oracleLog[2].ok /\ oracleLog[2].security = {}
    /\ has_critical /\ has_high

\* -------------------------------------------------------------------- C11

\* The filenames of a report's file sections, in the order of the document.
SectionNames(body) ==
    [j \in 1..Len(body.sections) |-> body.sections[j].filename]

\* C11: the file sections of every posted report name retained entries of
\* the upstream listing in the listing's order (a filename is the entry's
\* position in the listing), without reordering and without duplicates.
C11_ReportInListingOrder ==
    \A k \in 1..Len(postLog) :
      postLog[k].body.kind = "report" =>
        LET names == SectionNames(postLog[k].body)
        IN  /\ \A a, b \in 1..Len(names) : a < b => names[a] < names[b]
            /\ \A a \in 1..Len(names) :
                 /\ names[a] \in 1..Len(listing)
                 /\ Retained(listing[names[a]])

\* C11 witness: a report with the sections of two files was created.
C11_Witness ==
    /\ Len(postLog) = 1
    /\ postLog[1].body.kind = "report"
    /\ postLog[1].outcome = "created"
    /\ Len(postLog[1].body.sections) >= 2

\* -------------------------------------------------------------------- C12

\* Some analyzed file has the critical (the high) flag.
AnyCritical == \E j \in 1..Len(analyses) : analyses[j].has_critical_issues
AnyHigh == \E j \in 1..Len(analyses) : analyses[j].has_high_issues

\* C12: when the analysis loop is over, the files with an AnalysisResult are
\* exactly those whose oracle call succeeded, has_critical is the OR of
\* has_critical_issues over them and has_high the OR of has_high_issues, so
\* that a skipped file contributes to neither; with one analyzed file
\* flagged critical every posted report is Blocked and the process exits
\* non-zero under the strict flag.
C12_FlagsAreOrOfAnalyzed ==
    LoopOver =>
        /\ Len(analyses) = Succeeded
        /\ \A j \in 1..Len(analyses) :
             \E k \in 1..Len(oracleLog) :
               /\ oracleLog[k].ok
               /\ changed_files[oracleLog[k].file].filename
                    = analyses[j].filename
        /\ has_critical = AnyCritical
        /\ has_high = AnyHigh
        /\ AnyCritical =>
             /\ \A k \in 1..Len(postLog) :
                  TierOf(postLog[k].body.status_text) = "Blocked"
             /\ (pc = "exited" /\ fail_on_critical) => exitCode # 0

\* C12 witness: under the strict flag, one file was analyzed with a critical
\* finding and another without any; the report was created and the process
\* ended with a non-zero exit code.
C12_Witness ==
    /\ pc = "exited"
    /\ fail_on_critical
    /\ PipelineDone
    /\ Len(analyses) = 2
    /\ analyses[1].has_critical_issues
    /\ ~analyses[2].has_critical_issues /\ ~analyses[2].has_high_issues
    /\ exitCode # 0

\* -------------------------------------------------------------------- C13

\* C13: the document the formatter returns is decided by its arguments
\* (analyses, PR title, the two flags): whatever the clock reads when it is
\* called, a call with the run's arguments returns the run's document.
C13_RenderDeterministic ==
    comment_body.kind = "report" =>
        \A now \in Times :
          FormatAnalysisComment(analyses, pr_title, has_critical, has_high, now)
            = comment_body

\* -------------------------------------------------------------------- C14

\* C14: with either token absent the process never leaves startup except to
\* exit non-zero, and no PR lookup, files listing, content lookup, oracle
\* call or comment-creation call is made.
C14_MissingTokenIsStartupFatal ==
    (~github_token \/ ~openai_api_key) =>
        /\ pc \in {"main", "exited"}
        /\ pc = "exited" => exitCode # 0
        /\ fetchLog = << >>
        /\ oracleLog = << >>
        /\ postLog = << >>
        /\ ~Returned

\* C14 witness: the process has exited with the oracle token absent and the
\* platform token present.
C14_Witness ==
    /\ pc = "exited"
    /\ github_token /\ ~openai_api_key
    /\ exitCode = 1

\* -------------------------------------------------------------------- C15

\* Number of comments the run has created.
Created ==
    Cardinality({k \in 1..Len(postLog) : postLog[k].outcome = "created"})

\* C15: no run creates more than one comment, and a run that is Done has
\* created exactly one.
C15_OneCommentPerRun ==
    /\ Created <= 1
    /\ PipelineDone => Created = 1

\* -------------------------------------------------------------------- C16

\* C16: the exit code of a run that is Done with has_critical (verdict
\* Blocked) differs from the exit code main gives a failed pipeline under
\* the same strict flag.
C16_BlockedDistinctFromFailed ==
    (pc = "exited" /\ PipelineDone /\ has_critical) =>
        exitCode # ExitCodeFor([success |-> FALSE,
                                error |-> "Failed to get PR info"],
                               fail_on_critical)

\* -------------------------------------------------------------------- C17

\* The spellings of a marker in any letter case, among the words of texts.
Spellings(marker) ==
    IF marker = "CRITICAL" THEN {"critical", "Critical", "CRITICAL"}
    ELSE {"high", "High", "HIGH"}

\* C17: in both modes and whatever the Quality, Migration and Refactoring
\* texts are, has_critical_issues of an AnalysisResult is true exactly if
\* its Security text contains CRITICAL in some letter case, and
\* has_high_issues exactly if it contains HIGH in some letter case.
C17_FlagsFromSecurityText ==
    \A j \in 1..Len(analyses) :
      /\ analyses[j].has_critical_issues
           <=> analyses[j].security \cap Spellings("CRITICAL") # {}
      /\ analyses[j].has_high_issues
           <=> analyses[j].security \cap Spellings("HIGH") # {}

\* C17 witness: a full analysis whose Security text names CRITICAL in lower
\* case only and whose Quality text names both markers has the critical
\* flag and not the high flag.
C17_Witness ==
    /\ pc = "unit_done"
    /\ ~security_only
    /\ analyses[1].security = {"critical"}
    /\ analyses[1].quality = "CRITICAL and HIGH findings"
    /\ analyses[1].has_critical_issues
    /\ ~analyses[1].has_high_issues

\* -------------------------------------------------------------------- C18

\* C18: every report handed to the comment-creation call has one section
\* per AnalysisResult of the run, in their order and under their filenames,
\* and counts as many scanned files; it has one merge recommendation, whose
\* tier is the tier of the header's status text, and both are the tier the
\* run's two summary flags give.
C18_SectionsAndOneVerdict ==
    \A k \in 1..Len(postLog) :
      LET body == postLog[k].body
      IN  body.kind = "report" =>
            /\ Len(body.sections) = Len(analyses)
            /\ body.scanned = Len(analyses)
            /\ \A j \in 1..Len(analyses) :
                 body.sections[j].filename = analyses[j].filename
            /\ TierOf(body.status_text) = TierOf(body.recommendation)
            /\ TierOf(body.recommendation) =
                 TierOf(ConsoleLine([has_critical |-> has_critical,
                                     has_high |-> has_high]))

\* C18 witness: a report with two sections was handed to the
\* comment-creation call in a run in which both flags are set.
C18_Witness ==
    /\ Len(postLog) = 1
    /\ postLog[1].body.kind = "report"
    /\ Len(postLog[1].body.sections) = 2
    /\ has_critical /\ has_high

\* -------------------------------------------------------------------- C19

\* C19: every section of a report handed to the comment-creation call has
\* the four category blocks, and none of its Quality, Migration and
\* Refactoring blocks is empty: an empty category text is replaced by a
\* placeholder.
C19_EmptyCategoryHasPlaceholder ==
    \A k \in 1..Len(postLog) :
      LET body == postLog[k].body
      IN  body.kind = "report" =>
            \A j \in 1..Len(body.sections) :
              /\ {"security", "quality", "migration", "refactoring"}
                   \subseteq DOMAIN body.sections[j]
              /\ body.sections[j].quality # ""
              /\ body.sections[j].migration # ""
              /\ body.sections[j].refactoring # ""

\* -------------------------------------------------------------------- C20

\* The stage an error message of analyze_pr names (lines 62, 77 and 126,
\* the last being the error of post_comment, line 65).
StageOf(error) ==
    CASE error \in {"Failed to get PR info",
                    "Failed to get changed files"} -> "Fetching"
      [] error = "Failed to post comment" -> "Publishing"
      [] OTHER -> "?"

\* The last comment-creation call of the run did not create a comment.
PublishFailed ==
    /\ postLog # << >>
    /\ postLog[Len(postLog)].outcome # "created"

\* C20: a run that is Failed has returned from analyze_pr with an error
\* whose stage is Publishing if the comment-creation call failed (returned
\* an error or raised, with the report or with the comment of a PR without
\* Python files) and Fetching otherwise.
C20_FailureTaggedByStage ==
    PipelineFailed =>
      /\ Returned
      /\ StageOf(result.error) =
           IF PublishFailed THEN "Publishing" ELSE "Fetching"

\* -------------------------------------------------------------------- C21

\* The listing entries the content of which was looked up.
LookedUp ==
    {fetchLog[k].file : k \in {i \in 1..Len(fetchLog) :
                                 fetchLog[i].call \in {"head", "content"}}}

\* C21: every file get_pr_files has collected is a Python file of status
\* "added" or "modified", and content is looked up for such entries only.
C21_OnlyAddedOrModified ==
    /\ \A j \in 1..Len(files) :
         /\ files[j].status \in {"added", "modified"}
         /\ listing[files[j].filename].py
    /\ \A f \in LookedUp :
         listing[f].py /\ listing[f].status \in {"added", "modified"}

\* -------------------------------------------------------------------- C22

\* The listing entries for which a head lookup or a content lookup did not
\* give the content.
ResolutionFailed ==
    {fetchLog[k].file : k \in {i \in 1..Len(fetchLog) :
                                 /\ fetchLog[i].call \in {"head", "content"}
                                 /\ ~fetchLog[i].ok}}

\* C22: a file whose content resolution failed is in the list get_pr_files
\* collects, with content absent, and the files with content absent are
\* exactly those.
C22_ContentFailureKeepsFile ==
    /\ \A f \in ResolutionFailed :
         \E j \in 1..Len(files) :
           files[j].filename = f /\ files[j].content = NONE
    /\ \A j \in 1..Len(files) :
         files[j].content = NONE => files[j].filename \in ResolutionFailed

\* -------------------------------------------------------------------- C23

\* C23: with an oracle that may never answer, every run that has started
\* the pipeline eventually is Done or Failed.
C23_EndsDespiteHungOracle ==
    (pc = "get_pr_info") ~> (PipelineDone \/ PipelineFailed)

\* -------------------------------------------------------------------- C24

\* The AnalysisResult of listing entry f, in a run that has one.
ResultOf(f) ==
    analyses[CHOOSE j \in 1..Len(analyses) : analyses[j].filename = f]

\* C24: in security-only mode each analyzed file costs one oracle request
\* and the Quality, Migration and Refactoring texts of its AnalysisResult
\* are the empty text; in full mode each analyzed file costs four requests
\* and the three texts are those the oracle returned.
C24_ModeFixesCategories ==
    \A k \in 1..Len(oracleLog) :
      LET o == oracleLog[k]
          f == changed_files[o.file].filename
      IN  /\ security_only => o.requests = 1
          /\ o.ok =>
               /\ ~security_only => o.requests = 4
               /\ \A t \in {ResultOf(f).quality, ResultOf(f).migration,
                            ResultOf(f).refactoring} :
                    t = IF security_only THEN "" ELSE o.other

\* C24 witness: a security-only run and has analyzed two files.
C24_Witness ==
    /\ security_only
    /\ Len(analyses) = 2
    /\ \A k \in 1..Len(oracleLog) : oracleLog[k].ok

\* -------------------------------------------------------------------- C25

\* C25: a file for which an oracle request failed has no AnalysisResult and
\* no section in a report handed to the comment-creation call, and the two
\* flags are what the files that have an AnalysisResult give, whatever the
\* Security text received before the failure.
C25_AnalysisAtomic ==
    /\ \A k \in 1..Len(oracleLog) :
         ~oracleLog[k].ok =>
           LET f == changed_files[oracleLog[k].file].filename
           IN  /\ \A j \in 1..Len(analyses) : analyses[j].filename # f
               /\ \A p \in 1..Len(postLog) :
                    postLog[p].body.kind = "report" =>
                      \A j \in 1..Len(postLog[p].body.sections) :
                        postLog[p].body.sections[j].filename # f
    /\ has_critical = AnyCritical
    /\ has_high = AnyHigh

\* C25 witness: a report was created in a run in which a later request for
\* a file failed after its Security text named both markers, and neither
\* flag is set.
C25_Witness ==
    /\ \E k \in 1..Len(oracleLog) :
         /\ ~oracleLog[k].ok
         /\ oracleLog[k].security = {"Critical", "HIGH"}
         /\ oracleLog[k].requests = 4
    /\ ~has_critical /\ ~has_high
    /\ Created = 1
    /\ postLog[1].body.kind = "report"

\* -------------------------------------------------------------------- C26

\* The files listing has been received and get_pr_files has returned.
ListingDone ==
    /\ \E k \in 1..Len(fetchLog) : fetchLog[k].call = "files" /\ fetchLog[k].ok
    /\ pc \notin {"main", "get_pr_info", "get_pr_files", "filter"}

\* C26: the PR metadata lookup is the first upstream call and the files
\* listing the second, made once; an oracle call is made only after
\* get_pr_files has returned and before the report is formatted; the report
\* is formatted once, and handed to the comment-creation call only after
\* that; the comment-creation call is made once and after it no upstream
\* lookup, oracle call or formatting happens.
C26_StagesInOrder ==
    /\ [](/\ \A k \in 1..Len(fetchLog) :
               /\ fetchLog[k].call = "pr_info" <=> k = 1
               /\ fetchLog[k].call = "files" <=> k = 2
          /\ oracleLog # << >> => ListingDone
          /\ formatCalls <= 1
          /\ Len(postLog) <= 1
          /\ \A p \in 1..Len(postLog) :
               /\ ListingDone
               /\ postLog[p].body.kind = "report" =>
                    formatCalls = 1 /\ LoopOver)
    /\ [][/\ ListingDone => fetchLog' = fetchLog
          /\ formatCalls > 0 => oracleLog' = oracleLog
          /\ postLog # << >> =>
               UNCHANGED << fetchLog, oracleLog, formatCalls, postLog >>]_vars

\* C26 witness: a run has ended after two content lookups, two oracle
\* calls, the formatting and the creation of the report's comment.
C26_Witness ==
    /\ pc = "exited"
    /\ Len(fetchLog) = 6
    /\ Len(oracleLog) = 2
    /\ formatCalls = 1
    /\ Created = 1
    /\ postLog[1].body.kind = "report"

\* -------------------------------------------------------------------- C27

\* The head revision of the PullRequestRef fetched at the start of the run.
StartHead == fetchLog[1].sha

\* C27: every content lookup whose file has been analyzed was made at the
\* head revision the run's first PR lookup read.
C27_OneHeadRevision ==
    \A k \in 1..Len(fetchLog) :
      LET c == fetchLog[k]
      IN  (/\ c.call = "content"
           /\ \E j \in 1..Len(analyses) : analyses[j].filename = c.file)
            => c.sha = StartHead

\* -------------------------------------------------------------------- C28

\* C28: a run whose comment-creation call failed, with the report or with
\* the comment of a PR without Python files, is not Done, and its process
\* exits non-zero.
C28_PublishFailureFails ==
    PublishFailed =>
      /\ ~PipelineDone
      /\ pc = "exited" => exitCode # 0

====
